---- MODULE Spec2Model ----
(***************************************************************************)
(* The consistent-unwrap lint rule                                         *)
(* (packages/eslint-plugin/src/rules/consistent-unwrap.ts) as a state      *)
(* machine.  The rule's only state is the linked stack `wrappedScope`; the *)
(* host delivers CallExpression / function enter / function exit events   *)
(* in depth-first order and receives the rule's context.report calls.     *)
(***************************************************************************)
EXTENDS Integers, Sequences, FiniteSets, TLC

VARIABLES
    wrappedScope,   \* the rule's scope stack, top first (upper = the tail)
    emitted,        \* context.report calls made by the handler(s) of the last event
    frames,         \* host: syntactic regions currently open, innermost first
    nextId,         \* host: identity of the next AST node delivered
    last,           \* host: the event delivered last, and what it closed
    source,         \* host: the wrap construct being linted, when it lints a given one
    pass,           \* host: 1 for the first lint pass, 2 after a fix was applied
    run             \* runtime: the call of a wrapped function or of resultAll in progress

vars == <<wrappedScope, emitted, frames, nextId, last, source, pass, run>>

----------------------------------------------------------------------------
(* Bounds of the explored programs *)

\* AST nodes with an identity (calls, declared types, functions) of one program
MaxNodes == 6
\* members of one declared union
MaxTypes == 3
\* unwrap calls in the body of a wrap construct that is linted, fixed and linted again
MaxBody == 2

Names == {"f", "g", "h"}

----------------------------------------------------------------------------
(* Options of the rule *)

wrapName == "wrap"
unwrapName == "unwrap"

----------------------------------------------------------------------------
(* AST shapes read by the rule *)

NoName == [type |-> "none", name |-> ""]

\* `typeof n`
TypeofIdentifier(n) ==
    [type |-> "TSTypeQuery", exprName |-> [type |-> "Identifier", name |-> n],
     types |-> <<>>, id |-> 0]

\* `typeof q.f`: a type query whose expression is not a bare identifier
TypeofQualified ==
    [type |-> "TSTypeQuery", exprName |-> [type |-> "TSQualifiedName", name |-> "f"],
     types |-> <<>>, id |-> 0]

\* `F`: a member that is no type query at all
TypeReference ==
    [type |-> "TSTypeReference", exprName |-> NoName, types |-> <<>>, id |-> 0]

UnionType(ms) ==
    [type |-> "TSUnionType", exprName |-> NoName, types |-> ms, id |-> 0]

TypeMembers == {TypeofIdentifier(n) : n \in Names} \cup {TypeofQualified, TypeReference}

MemberLists == UNION {[1..k -> TypeMembers] : k \in 1..MaxTypes}

\* two type parameters instead of one
ParameterPairs ==
    {<<TypeofIdentifier("f"), TypeofIdentifier("g")>>,
     <<TypeofIdentifier("f"), TypeofIdentifier("f")>>}

\* the members get the node identities id + 1, id + 2, ...
Located(ms, id) == [i \in 1..Len(ms) |-> [ms[i] EXCEPT !.id = id + i]]

\* the parser gives a union node only for two members or more
TypeOfMembers(ms) == IF Len(ms) = 1 THEN ms[1] ELSE UnionType(ms)

\* typeParameters === undefined
NoTypeParameters == [present |-> FALSE, params |-> <<>>]

TypeParameters(ps) == [present |-> TRUE, params |-> ps]

\* the type-parameter lists of a call with identity id that declare at most max
\* types: none, an empty one, one parameter (a type or a union), two parameters
TypeParameterInputs(id, max) ==
    {NoTypeParameters, TypeParameters(<<>>)}
    \cup {TypeParameters(<<TypeOfMembers(Located(ms, id))>>) :
             ms \in {m \in MemberLists : Len(m) <= max}}
    \cup {TypeParameters(Located(ms, id)) : ms \in {m \in ParameterPairs : Len(m) <= max}}

\* the declared types of a list, over all its parameters
RECURSIVE TypeCount(_)
TypeCount(params) ==
    IF params = <<>> THEN 0
    ELSE (IF Head(params).type = "TSUnionType" THEN Len(Head(params).types) ELSE 1)
         + TypeCount(Tail(params))

\* expressions that occur as arguments of an unwrap call
CallOf(ctype, n) == [type |-> "CallExpression", callee |-> [type |-> ctype, name |-> n]]
Literal == [type |-> "Literal", callee |-> NoName]
Await(e) == [type |-> "AwaitExpression", argument |-> e]

GoodArgs == {CallOf("Identifier", n) : n \in Names}
BadArgs == {Literal, CallOf("MemberExpression", "f")}
ArgInputs ==
    GoodArgs \cup BadArgs
    \cup {Await(e) : e \in GoodArgs \cup BadArgs}
    \cup {Await(Await(CallOf("Identifier", "f")))}

\* node identities used as anchors of diagnostics and fixes
Anchor(k, id) == [kind |-> k, id |-> id]
NoAnchor == Anchor("none", 0)

FunctionArg(t, a, id) == [type |-> t, async |-> a, id |-> id]
OtherArg == [type |-> "Literal", async |-> FALSE, id |-> 0]

NoParent == [present |-> FALSE, type |-> "none", arguments |-> <<>>]
Parent(t, args) == [present |-> TRUE, type |-> t, arguments |-> args]

CallNode(id, callee, tp, parent, args) ==
    [id |-> id, callee |-> callee, typeParameters |-> tp, parent |-> parent, arguments |-> args]

Identifier(n) == [type |-> "Identifier", name |-> n]
Member(n) == [type |-> "MemberExpression", name |-> n]

----------------------------------------------------------------------------
(* Map<string, node>: insertion-ordered, as a sequence of entries *)

MapHas(m, k) == \E i \in 1..Len(m) : m[i].key = k

MapGet(m, k) == m[CHOOSE i \in 1..Len(m) : m[i].key = k].value

\* a set that deletes the key and inserts it again, at the end
MapSetMoveLast(m, k, v) ==
    Append(SelectSeq(m, LAMBDA e : e.key # k), [key |-> k, value |-> v])

\* a Map.set that keeps the value stored first
MapSetKeepFirst(m, k, v) ==
    IF MapHas(m, k) THEN m ELSE Append(m, [key |-> k, value |-> v])

\* Map.prototype.set: an existing key keeps its position and takes the new value
MapSet(m, k, v) ==
    IF MapHas(m, k)
    THEN [i \in 1..Len(m) |-> IF m[i].key = k THEN [key |-> k, value |-> v] ELSE m[i]]
    ELSE Append(m, [key |-> k, value |-> v])

MapKeys(m) == [i \in 1..Len(m) |-> m[i].key]

KeySet(m) == {m[i].key : i \in 1..Len(m)}

----------------------------------------------------------------------------
(* context.report *)

NoFix == [kind |-> "none", target |-> NoAnchor, text |-> <<>>]

Report(messageId, node) == [messageId |-> messageId, node |-> node, fix |-> NoFix]

ReportWithFix(messageId, node, fix) == [messageId |-> messageId, node |-> node, fix |-> fix]

----------------------------------------------------------------------------
(* The rule's handlers.  Each takes the scope stack and the visited node   *)
(* and returns the new stack together with the reports it made.            *)

\* onWrapCall that does not ask the function argument to be async
onWrapCallAnyFunction(ws, node) ==
    IF ~(node.callee.type = "Identifier" /\ node.callee.name = wrapName) THEN ws
    ELSE IF ~node.parent.present THEN ws
    ELSE IF node.parent.type # "CallExpression" THEN ws
    ELSE IF Len(node.parent.arguments) # 1 THEN ws
    ELSE LET fn == node.parent.arguments[1] IN
         IF ~(fn.type = "FunctionExpression" \/ fn.type = "ArrowFunctionExpression") THEN ws
         ELSE <<[fn |-> fn.id,
                 inFn |-> FALSE,
                 callee |-> Anchor("callee", node.id),
                 typeParameters |-> node.typeParameters,
                 typeParametersNode |-> Anchor("typeParameters", node.id),
                 unwrappedFns |-> <<>>,
                 wrappedFns |-> <<>>]>> \o ws

onWrapCall(ws, node) ==
    IF ~(node.callee.type = "Identifier" /\ node.callee.name = wrapName) THEN ws
    ELSE IF ~node.parent.present THEN ws
    ELSE IF node.parent.type # "CallExpression" THEN ws
    ELSE IF Len(node.parent.arguments) # 1 THEN ws
    ELSE LET fn == node.parent.arguments[1] IN
         IF ~(fn.type = "FunctionExpression" \/ fn.type = "ArrowFunctionExpression") THEN ws
         ELSE IF ~fn.async THEN ws
         ELSE <<[fn |-> fn.id,
                 inFn |-> FALSE,
                 callee |-> Anchor("callee", node.id),
                 typeParameters |-> node.typeParameters,
                 typeParametersNode |-> Anchor("typeParameters", node.id),
                 unwrappedFns |-> <<>>,
                 wrappedFns |-> <<>>]>> \o ws

\* an enterFunction that marks the top scope whichever function is entered
enterFunctionAny(ws, fn) ==
    IF ws = <<>> THEN ws
    ELSE <<[Head(ws) EXCEPT !.inFn = TRUE]>> \o Tail(ws)

enterFunction(ws, fn) ==
    IF ws = <<>> \/ Head(ws).fn # fn THEN ws
    ELSE <<[Head(ws) EXCEPT !.inFn = TRUE]>> \o Tail(ws)

\* onUnwrapCall recording the name in every scope of the stack
onUnwrapCallAllScopes(ws, node) ==
    IF ws = <<>> \/ ~Head(ws).inFn THEN [ws |-> ws, out |-> <<>>]
    ELSE IF ~(node.callee.type = "Identifier" /\ node.callee.name = unwrapName)
         THEN [ws |-> ws, out |-> <<>>]
    ELSE IF Len(node.arguments) # 1 THEN [ws |-> ws, out |-> <<>>]
    ELSE LET arg == node.arguments[1]
             peeled == arg.type = "AwaitExpression"
             callExpr == IF peeled THEN arg.argument ELSE arg
             callNode == Anchor(IF peeled THEN "awaited" ELSE "argument", node.id)
         IN  IF callExpr.type # "CallExpression" \/ callExpr.callee.type # "Identifier"
             THEN [ws |-> ws, out |-> <<Report("badUnwrapArg", Anchor("call", node.id))>>]
             ELSE [ws |-> [i \in 1..Len(ws) |->
                              [ws[i] EXCEPT !.unwrappedFns =
                                  MapSet(@, callExpr.callee.name, callNode)]],
                   out |-> <<>>]

\* onUnwrapCall accepting any call expression, whatever its callee
onUnwrapCallAnyCallee(ws, node) ==
    IF ws = <<>> \/ ~Head(ws).inFn THEN [ws |-> ws, out |-> <<>>]
    ELSE IF ~(node.callee.type = "Identifier" /\ node.callee.name = unwrapName)
         THEN [ws |-> ws, out |-> <<>>]
    ELSE IF Len(node.arguments) # 1 THEN [ws |-> ws, out |-> <<>>]
    ELSE LET arg == node.arguments[1]
             peeled == arg.type = "AwaitExpression"
             callExpr == IF peeled THEN arg.argument ELSE arg
             callNode == Anchor(IF peeled THEN "awaited" ELSE "argument", node.id)
         IN  IF callExpr.type # "CallExpression"
             THEN [ws |-> ws, out |-> <<Report("badUnwrapArg", Anchor("call", node.id))>>]
             ELSE [ws |-> <<[Head(ws) EXCEPT !.unwrappedFns =
                                MapSet(@, callExpr.callee.name, callNode)]>> \o Tail(ws),
                   out |-> <<>>]

\* onUnwrapCall that does not wait for the body to be entered
onUnwrapCallAnywhere(ws, node) ==
    IF ws = <<>> THEN [ws |-> ws, out |-> <<>>]
    ELSE IF ~(node.callee.type = "Identifier" /\ node.callee.name = unwrapName)
         THEN [ws |-> ws, out |-> <<>>]
    ELSE IF Len(node.arguments) # 1 THEN [ws |-> ws, out |-> <<>>]
    ELSE LET arg == node.arguments[1]
             peeled == arg.type = "AwaitExpression"
             callExpr == IF peeled THEN arg.argument ELSE arg
             callNode == Anchor(IF peeled THEN "awaited" ELSE "argument", node.id)
         IN  IF callExpr.type # "CallExpression" \/ callExpr.callee.type # "Identifier"
             THEN [ws |-> ws, out |-> <<Report("badUnwrapArg", Anchor("call", node.id))>>]
             ELSE [ws |-> <<[Head(ws) EXCEPT !.unwrappedFns =
                                MapSet(@, callExpr.callee.name, callNode)]>> \o Tail(ws),
                   out |-> <<>>]

onUnwrapCall(ws, node) ==
    IF ws = <<>> \/ ~Head(ws).inFn THEN [ws |-> ws, out |-> <<>>]
    ELSE IF ~(node.callee.type = "Identifier" /\ node.callee.name = unwrapName)
         THEN [ws |-> ws, out |-> <<>>]
    ELSE IF Len(node.arguments) # 1 THEN [ws |-> ws, out |-> <<>>]
    ELSE LET arg == node.arguments[1]
             peeled == arg.type = "AwaitExpression"
             callExpr == IF peeled THEN arg.argument ELSE arg
             callNode == Anchor(IF peeled THEN "awaited" ELSE "argument", node.id)
         IN  IF callExpr.type # "CallExpression" \/ callExpr.callee.type # "Identifier"
             THEN [ws |-> ws, out |-> <<Report("badUnwrapArg", Anchor("call", node.id))>>]
             ELSE [ws |-> <<[Head(ws) EXCEPT !.unwrappedFns =
                                MapSet(@, callExpr.callee.name, callNode)]>> \o Tail(ws),
                   out |-> <<>>]

\* types.forEach with a duplicate that does not ask for a fix
RECURSIVE CheckTypesNoFlag(_, _, _)
CheckTypesNoFlag(types, i, acc) ==
    IF i > Len(types) THEN acc
    ELSE LET tnode == types[i]
             at == Anchor("type", tnode.id)
         IN  IF tnode.type # "TSTypeQuery" \/ tnode.exprName.type # "Identifier"
             THEN CheckTypesNoFlag(types, i + 1,
                      [acc EXCEPT !.out = Append(@, Report("badWrapTypeArg", at)),
                                  !.needFix = TRUE])
             ELSE IF MapHas(acc.wrappedFns, tnode.exprName.name)
             THEN CheckTypesNoFlag(types, i + 1,
                      [acc EXCEPT !.out = Append(@, Report("duplicatedWrapArg", at))])
             ELSE CheckTypesNoFlag(types, i + 1,
                      [acc EXCEPT !.wrappedFns = MapSet(@, tnode.exprName.name, at)])

\* types.forEach with a duplicate that is reported and set again
RECURSIVE CheckTypesLastWins(_, _, _)
CheckTypesLastWins(types, i, acc) ==
    IF i > Len(types) THEN acc
    ELSE LET tnode == types[i]
             at == Anchor("type", tnode.id)
         IN  IF tnode.type # "TSTypeQuery" \/ tnode.exprName.type # "Identifier"
             THEN CheckTypesLastWins(types, i + 1,
                      [acc EXCEPT !.out = Append(@, Report("badWrapTypeArg", at)),
                                  !.needFix = TRUE])
             ELSE IF MapHas(acc.wrappedFns, tnode.exprName.name)
             THEN CheckTypesLastWins(types, i + 1,
                      [acc EXCEPT !.out = Append(@, Report("duplicatedWrapArg", at)),
                                  !.needFix = TRUE,
                                  !.wrappedFns = MapSet(@, tnode.exprName.name, at)])
             ELSE CheckTypesLastWins(types, i + 1,
                      [acc EXCEPT !.wrappedFns = MapSet(@, tnode.exprName.name, at)])

\* types.forEach of exitFunction: acc = [wrappedFns, out, needFix]
RECURSIVE CheckTypes(_, _, _)
CheckTypes(types, i, acc) ==
    IF i > Len(types) THEN acc
    ELSE LET tnode == types[i]
             at == Anchor("type", tnode.id)
         IN  IF tnode.type # "TSTypeQuery" \/ tnode.exprName.type # "Identifier"
             THEN CheckTypes(types, i + 1,
                      [acc EXCEPT !.out = Append(@, Report("badWrapTypeArg", at)),
                                  !.needFix = TRUE])
             ELSE IF MapHas(acc.wrappedFns, tnode.exprName.name)
             THEN CheckTypes(types, i + 1,
                      [acc EXCEPT !.out = Append(@, Report("duplicatedWrapArg", at)),
                                  !.needFix = TRUE])
             ELSE CheckTypes(types, i + 1,
                      [acc EXCEPT !.wrappedFns = MapSet(@, tnode.exprName.name, at)])

\* a cross-check that compares the two maps entry by entry, in order
ReportMissingPositional(messageId, m, other) ==
    LET miss == {i \in 1..Len(m) : ~(i <= Len(other) /\ other[i].key = m[i].key)}
        pick == SelectSeq(m, LAMBDA e : \E i \in miss : m[i] = e)
    IN  [i \in 1..Len(pick) |-> Report(messageId, pick[i].value)]

\* a cross-check that stops at the first missing name
ReportMissingFirst(messageId, m, other) ==
    LET miss == SelectSeq(m, LAMBDA e : ~MapHas(other, e.key))
    IN  [i \in 1..(IF miss = <<>> THEN 0 ELSE 1) |-> Report(messageId, miss[i].value)]

\* a cross-check that reports the missing names last entry first
ReportMissingReversed(messageId, m, other) ==
    LET miss == SelectSeq(m, LAMBDA e : ~MapHas(other, e.key))
    IN  [i \in 1..Len(miss) |-> Report(messageId, miss[Len(miss) + 1 - i].value)]

\* the entries of m whose key the map `other` does not have, reported in m's order
ReportMissing(messageId, m, other) ==
    LET miss == SelectSeq(m, LAMBDA e : ~MapHas(other, e.key))
    IN  [i \in 1..Len(miss) |-> Report(messageId, miss[i].value)]

\* the text built by the fix of badWrap, as tokens
RECURSIVE JoinTypeof(_)
JoinTypeof(keys) ==
    IF keys = <<>> THEN <<>>
    ELSE IF Len(keys) = 1 THEN <<"typeof", keys[1]>>
    ELSE <<"typeof", keys[1], "|">> \o JoinTypeof(Tail(keys))

FixText(unwrappedFns) == <<"<">> \o JoinTypeof(MapKeys(unwrappedFns)) \o <<">">>

\* a fix strategy that always replaces the type-parameter list
FixStrategyReplace(s) == <<"replace", s.typeParametersNode>>

\* const fixStrategy = !typeParameters ? ['after', callee] : ['replace', typeParameters]
FixStrategy(s) ==
    IF ~s.typeParameters.present
    THEN <<"after", s.callee>>
    ELSE <<"replace", s.typeParametersNode>>

\* the fix function of the badWrap report
BadWrapFix(fixStrategy, unwrappedFns) ==
    IF fixStrategy[1] = "after"
    THEN [kind |-> "insertTextAfter", target |-> fixStrategy[2], text |-> FixText(unwrappedFns)]
    ELSE [kind |-> "replaceText", target |-> fixStrategy[2], text |-> FixText(unwrappedFns)]

\* an exit guard that only looks whether a scope is open
NotTopFunctionAnyExit(ws, fn) == ws = <<>>

\* if (!wrappedScope || wrappedScope.fn !== fn) return
NotTopFunction(ws, fn) == ws = <<>> \/ Head(ws).fn # fn

\* a pop that forgets every enclosing scope
PopToNull(ws) == <<>>

\* a pop that leaves the reconciled scope on the stack
PopNothing(ws) == ws

\* wrappedScope = wrappedScope?.upper || null
Pop(ws) == Tail(ws)

exitFunction(ws, fn) ==
    IF NotTopFunction(ws, fn) THEN [ws |-> ws, out |-> <<>>, scope |-> <<>>]
    ELSE LET s == Head(ws)
             typeParameters == s.typeParameters
             fix == BadWrapFix(FixStrategy(s), s.unwrappedFns)
             declared ==
                 IF ~typeParameters.present \/ Len(typeParameters.params) # 1
                 THEN [wrappedFns |-> s.wrappedFns,
                       out |-> <<Report("missingTypeParamInWrap", s.callee)>>,
                       needFix |-> TRUE]
                 ELSE LET param == typeParameters.params[1]
                          types == IF param.type = "TSUnionType" THEN param.types ELSE <<param>>
                      IN  CheckTypes(types, 1,
                              [wrappedFns |-> s.wrappedFns, out |-> <<>>, needFix |-> FALSE])
             notWrapped == ReportMissing("unwrapNotInWrap", s.unwrappedFns, declared.wrappedFns)
             notUnwrapped == ReportMissing("wrappedFnNotUnwrapped", declared.wrappedFns, s.unwrappedFns)
             needFix == declared.needFix \/ notWrapped # <<>> \/ notUnwrapped # <<>>
             badWrap == IF needFix THEN <<ReportWithFix("badWrap", s.callee, fix)>> ELSE <<>>
         IN  [ws |-> Pop(ws),
              out |-> declared.out \o notWrapped \o notUnwrapped \o badWrap,
              scope |-> <<[s EXCEPT !.wrappedFns = declared.wrappedFns]>>]

\* the CallExpression visitor: onWrapCall, then onUnwrapCall, on the same node
CallExpression(ws, node) == onUnwrapCall(onWrapCall(ws, node), node)

----------------------------------------------------------------------------
(* The host: a depth-first traversal that delivers events to the rule.     *)
(* The program is generated while it is traversed: `frames` holds the      *)
(* regions still open, a call whose parent call takes a function literal   *)
(* as first argument opens a pending region that ends where the traversal  *)
(* enters that function.                                                   *)

Statement == Parent("ExpressionStatement", <<>>)

\* calls of the shape wrap<...>()(async () => ...), one per declared list
WrapCalls(id) ==
    {CallNode(id, Identifier(wrapName), tp,
              Parent("CallExpression",
                     <<FunctionArg("ArrowFunctionExpression", TRUE,
                                   id + TypeCount(tp.params) + 1)>>),
              <<>>) : tp \in TypeParameterInputs(id, MaxNodes - id - 1)}

\* the same call with one part of the shape varied at a time
ParentInputs(id) ==
    {NoParent, Statement,
     Parent("CallExpression", <<>>),
     Parent("CallExpression", <<OtherArg>>),
     Parent("CallExpression", <<FunctionArg("ArrowFunctionExpression", TRUE, id + 1)>>),
     Parent("CallExpression", <<FunctionArg("FunctionExpression", TRUE, id + 1)>>),
     Parent("CallExpression", <<FunctionArg("ArrowFunctionExpression", FALSE, id + 1)>>),
     Parent("CallExpression", <<FunctionArg("FunctionExpression", TRUE, id + 1), OtherArg>>)}

ShapeCalls(id) ==
    {CallNode(id, c, NoTypeParameters, p, <<>>) :
        c \in {Identifier(wrapName), Member(wrapName), Identifier("other")},
        p \in ParentInputs(id)}

ArgumentLists ==
    {<<>>, <<CallOf("Identifier", "f"), Literal>>} \cup {<<e>> : e \in ArgInputs}

UnwrapCalls(id) ==
    {CallNode(id, Identifier(unwrapName), NoTypeParameters, Statement, args) :
        args \in ArgumentLists}
    \cup {CallNode(id, Member(unwrapName), NoTypeParameters, Statement,
                   <<CallOf("Identifier", "f")>>)}

CallInputs(id) == WrapCalls(id) \cup ShapeCalls(id) \cup UnwrapCalls(id)

\* the function literal the traversal will enter after this call, if any
OpensFunction(node) ==
    /\ node.parent.present
    /\ node.parent.type = "CallExpression"
    /\ Len(node.parent.arguments) >= 1
    /\ node.parent.arguments[1].type \in {"FunctionExpression", "ArrowFunctionExpression"}

\* a wrap construct, as the glossary defines it
IsWrapConstruct(node) ==
    /\ OpensFunction(node)
    /\ node.callee = Identifier(wrapName)
    /\ Len(node.parent.arguments) = 1
    /\ node.parent.arguments[1].async

\* an unwrap call with one argument
IsUnwrapCall(node) ==
    /\ node.callee = Identifier(unwrapName)
    /\ Len(node.arguments) = 1

\* the argument after peeling one await
Peel(e) == IF e.type = "AwaitExpression" THEN e.argument ELSE e

\* an unwrap call of a call of a named function
IsWellFormedUnwrap(node) ==
    /\ IsUnwrapCall(node)
    /\ Peel(node.arguments[1]) \in GoodArgs

IsMalformedUnwrap(node) ==
    /\ IsUnwrapCall(node)
    /\ Peel(node.arguments[1]) \notin GoodArgs

UnwrappedName(node) == Peel(node.arguments[1]).callee.name

Frame(k, fn, w) == [kind |-> k, fn |-> fn, isWrap |-> w, seen |-> <<>>, within |-> {}]

\* the innermost open region that belongs to a wrap construct (0 if none)
WrapFrame(fs) ==
    IF \E i \in 1..Len(fs) : fs[i].isWrap
    THEN CHOOSE i \in 1..Len(fs) : fs[i].isWrap /\ \A j \in 1..(i - 1) : ~fs[j].isWrap
    ELSE 0

\* the innermost wrap construct whose function body is open (0 if none)
WrapBody(fs) ==
    IF \E i \in 1..Len(fs) : fs[i].isWrap /\ fs[i].kind = "body"
    THEN CHOOSE i \in 1..Len(fs) :
             /\ fs[i].isWrap /\ fs[i].kind = "body"
             /\ \A j \in 1..(i - 1) : ~(fs[j].isWrap /\ fs[j].kind = "body")
    ELSE 0

\* the names unwrapped between the enter and the exit of each wrap function and
\* outside the function body of any wrap construct nested in it
NoteWithin(fs, node) ==
    LET b == WrapBody(fs) IN
    IF IsWellFormedUnwrap(node) /\ b > 0
    THEN [fs EXCEPT ![b].within = @ \cup {UnwrappedName(node)}]
    ELSE fs

\* the host's own record of the names unwrapped directly in each wrap body,
\* in the order of their first unwrap call
NoteSeen(fs, node) ==
    LET w == WrapFrame(fs) IN
    IF IsWellFormedUnwrap(node) /\ w > 0 /\ fs[w].kind = "body"
       /\ \A k \in 1..Len(fs[w].seen) : fs[w].seen[k] # UnwrappedName(node)
    THEN [fs EXCEPT ![w].seen = Append(@, UnwrappedName(node))]
    ELSE fs

Note(fs, node) == NoteWithin(NoteSeen(fs, node), node)

\* what the host knows the visited call to be
Class(node) ==
    IF IsWrapConstruct(node) THEN "wrap"
    ELSE IF IsWellFormedUnwrap(node) THEN "unwrap"
    ELSE IF IsMalformedUnwrap(node) THEN "malformedUnwrap"
    ELSE IF node.callee = Identifier(unwrapName) THEN "unwrapArity"
    ELSE "other"

\* an event: its kind, the node it visits (a call's id and class, a function's
\* id), the stack it was delivered to, and the scope and region it closed
Event(k, id, class, before, scope, frame) ==
    [kind |-> k, id |-> id, class |-> class, before |-> before,
     scope |-> scope, frame |-> frame]

\* the state in which create() leaves the rule, before the first event
Start ==
    /\ wrappedScope = <<>>
    /\ emitted = <<>>
    /\ frames = <<>>
    /\ nextId = 1
    /\ last = Event("start", 0, "none", <<>>, <<>>, <<>>)

NoSource == [typeParameters |-> NoTypeParameters, body |-> <<>>]

\* no wrapped function and no resultAll is running while the rule lints
NoRun == [kind |-> "none"]

Init ==
    /\ Start
    /\ source = NoSource
    /\ pass = 1
    /\ run = NoRun

\* the identities a call takes: its own, its declared types', its function's
Size(node) ==
    1 + TypeCount(node.typeParameters.params) + (IF OpensFunction(node) THEN 1 ELSE 0)

Fits(node) == node.id + Size(node) - 1 <= MaxNodes

\* CallExpression (node)
VisitCall(node) ==
    LET r == CallExpression(wrappedScope, node)
        opens == OpensFunction(node)
    IN  /\ wrappedScope' = r.ws
        /\ emitted' = r.out
        /\ frames' = IF opens
                     THEN <<Frame("pending", node.parent.arguments[1].id, IsWrapConstruct(node))>>
                              \o Note(frames, node)
                     ELSE Note(frames, node)
        /\ nextId' = node.id + Size(node)
        /\ last' = Event("call", node.id, Class(node), wrappedScope, <<>>, <<>>)
        /\ UNCHANGED <<source, pass, run>>

\* FunctionExpression / ArrowFunctionExpression: the function argument of the
\* innermost pending call is entered
EnterArgument ==
    /\ frames # <<>>
    /\ Head(frames).kind = "pending"
    /\ wrappedScope' = enterFunction(wrappedScope, Head(frames).fn)
    /\ emitted' = <<>>
    /\ frames' = <<[Head(frames) EXCEPT !.kind = "body"]>> \o Tail(frames)
    /\ last' = Event("enter", Head(frames).fn, "none", wrappedScope, <<>>, <<>>)
    /\ UNCHANGED <<nextId, source, pass, run>>

\* FunctionExpression / ArrowFunctionExpression: any other function literal
EnterOther ==
    /\ nextId <= MaxNodes
    /\ wrappedScope' = enterFunction(wrappedScope, nextId)
    /\ emitted' = <<>>
    /\ frames' = <<Frame("body", nextId, FALSE)>> \o frames
    /\ nextId' = nextId + 1
    /\ last' = Event("enter", nextId, "none", wrappedScope, <<>>, <<>>)
    /\ UNCHANGED <<source, pass, run>>

\* FunctionExpression:exit / ArrowFunctionExpression:exit
ExitFunction ==
    /\ frames # <<>>
    /\ Head(frames).kind = "body"
    /\ LET r == exitFunction(wrappedScope, Head(frames).fn) IN
        /\ wrappedScope' = r.ws
        /\ emitted' = r.out
        /\ last' = Event("exit", Head(frames).fn, "none", wrappedScope, r.scope, <<Head(frames)>>)
    /\ frames' = Tail(frames)
    /\ UNCHANGED <<nextId, source, pass, run>>

\* CallExpression, on any call the host can deliver next
Visit == \E node \in CallInputs(nextId) : Fits(node) /\ VisitCall(node)

Next ==
    \/ Visit
    \/ EnterArgument
    \/ EnterOther
    \/ ExitFunction

Spec == Init /\ [][Next]_vars

----------------------------------------------------------------------------
(* The host lints one given wrap construct, applies the fix of its badWrap *)
(* report to the text, and lints the result again.                        *)

\* wrap<typeParameters>()(async () => { unwrap(body[1]); unwrap(body[2]); ... })
\* the argument lists of the unwrap calls of a linted body
BodyArguments ==
    {<<>>, <<Literal>>, <<Await(CallOf("Identifier", "f"))>>}
    \cup {<<e>> : e \in GoodArgs}

\* the construct declares at most as many types as its body has unwrap calls
SourceInputs ==
    {[typeParameters |-> tp, body |-> b] :
        tp \in TypeParameterInputs(1, MaxBody),
        b \in UNION {[1..k -> BodyArguments] : k \in 0..MaxBody}}

WrapNode(src) ==
    CallNode(1, Identifier(wrapName), src.typeParameters,
             Parent("CallExpression",
                    <<FunctionArg("ArrowFunctionExpression", TRUE,
                                  TypeCount(src.typeParameters.params) + 2)>>),
             <<>>)

\* the unwrap calls of the body delivered so far
Delivered(src) == nextId - (TypeCount(src.typeParameters.params) + 3)

UnwrapNode(src) ==
    CallNode(nextId, Identifier(unwrapName), NoTypeParameters, Statement,
             src.body[Delivered(src) + 1])

\* the parser on the text of a fix: '<' typeof n ('|' typeof n)* '>'
RECURSIVE ParseUnion(_)
ParseUnion(text) ==
    IF Len(text) < 2 \/ text[1] # "typeof" THEN <<>>
    ELSE <<TypeofIdentifier(text[2])>>
         \o (IF Len(text) > 3 /\ text[3] = "|" THEN ParseUnion(SubSeq(text, 4, Len(text)))
             ELSE <<>>)

ParseTypeArguments(text, id) ==
    LET ms == ParseUnion(SubSeq(text, 2, Len(text) - 1))
    IN  IF ms = <<>> THEN TypeParameters(<<>>)
        ELSE TypeParameters(<<TypeOfMembers(Located(ms, id))>>)

\* fixer.insertTextAfter(callee, text) / fixer.replaceText(typeParameters, text):
\* either way the text becomes the type-argument list of the wrap call
ApplyFixTo(src, fix) ==
    [src EXCEPT !.typeParameters = ParseTypeArguments(fix.text, 1)]

Fixes(out) == SelectSeq(out, LAMBDA r : r.fix.kind # "none")

InitFix ==
    /\ Start
    /\ source \in SourceInputs
    /\ pass = 1
    /\ run = NoRun

LintWrap ==
    /\ last.kind = "start"
    /\ VisitCall(WrapNode(source))

LintEnter == EnterArgument

LintUnwrap ==
    /\ frames # <<>> /\ Head(frames).kind = "body"
    /\ Delivered(source) < Len(source.body)
    /\ VisitCall(UnwrapNode(source))

LintExit ==
    /\ frames # <<>> /\ Head(frames).kind = "body"
    /\ Delivered(source) = Len(source.body)
    /\ ExitFunction

\* the host applies the fix the first pass reported and starts over
ApplyFix ==
    /\ pass = 1
    /\ last.kind = "exit"
    /\ Fixes(emitted) # <<>>
    /\ source' = ApplyFixTo(source, Fixes(emitted)[1].fix)
    /\ pass' = 2
    /\ wrappedScope' = <<>>
    /\ emitted' = <<>>
    /\ frames' = <<>>
    /\ nextId' = 1
    /\ last' = Event("start", 0, "none", <<>>, <<>>, <<>>)
    /\ UNCHANGED run

NextFix ==
    \/ LintWrap
    \/ LintEnter
    \/ LintUnwrap
    \/ LintExit
    \/ ApplyFix

SpecFix == InitFix /\ [][NextFix]_vars


----------------------------------------------------------------------------
(* A host that delivers the same events without keeping them well nested:  *)
(* any function may be entered or exited at any time.  The handlers must    *)
(* ignore every function event that is not for the function of the top     *)
(* scope.                                                                   *)

\* the calls this host delivers: wrap constructs that declare at most one
\* type, and unwrap calls
FreeCalls(id) ==
    {CallNode(id, Identifier(wrapName), tp,
              Parent("CallExpression",
                     <<FunctionArg("ArrowFunctionExpression", TRUE,
                                   id + TypeCount(tp.params) + 1)>>),
              <<>>) : tp \in TypeParameterInputs(id, 1)}
    \cup {CallNode(id, Identifier(unwrapName), NoTypeParameters, Statement, <<e>>) :
              e \in {CallOf("Identifier", "f"), Await(CallOf("Identifier", "g")), Literal}}

\* CallExpression (node)
FreeCall ==
    \E node \in FreeCalls(nextId) :
        /\ Fits(node)
        /\ LET r == CallExpression(wrappedScope, node) IN
            /\ wrappedScope' = r.ws
            /\ emitted' = r.out
        /\ nextId' = node.id + Size(node)
        /\ last' = Event("call", node.id, Class(node), wrappedScope, <<>>, <<>>)
        /\ UNCHANGED <<frames, source, pass, run>>

\* FunctionExpression / ArrowFunctionExpression (fn), for any function
FreeEnter ==
    \E fn \in 1..MaxNodes :
        /\ wrappedScope' = enterFunction(wrappedScope, fn)
        /\ emitted' = <<>>
        /\ last' = Event("enter", fn, "none", wrappedScope, <<>>, <<>>)
        /\ UNCHANGED <<frames, nextId, source, pass, run>>

\* FunctionExpression:exit / ArrowFunctionExpression:exit (fn), for any function
FreeExit ==
    \E fn \in 1..MaxNodes :
        LET r == exitFunction(wrappedScope, fn) IN
        /\ wrappedScope' = r.ws
        /\ emitted' = r.out
        /\ last' = Event("exit", fn, "none", wrappedScope, r.scope, <<>>)
        /\ UNCHANGED <<frames, nextId, source, pass, run>>

NextFree ==
    \/ FreeCall
    \/ FreeEnter
    \/ FreeExit

SpecFree == Init /\ [][NextFree]_vars

----------------------------------------------------------------------------
(* The runtime helpers the linted idiom stands for (Ok, Err, unwrap, wrap, *)
(* resultAll of packages/typescript-typed-errors), as                      *)
(* tests/utils.spec.ts uses them: a tagged success/error value and a       *)
(* short-circuiting accessor.                                              *)

\* unwrap statements in the body of one wrapped function
MaxStatements == 2
\* result promises handed to one resultAll call
MaxInputs == 3

Values == {"a", "b"}
Codes == {"1", "2"}

Ok(v) == [ok |-> TRUE, value |-> <<v>>, error |-> <<>>]
Err(e) == [ok |-> FALSE, value |-> <<>>, error |-> <<e>>]
isOk(r) == r.ok
isErr(r) == ~r.ok

Results == {Ok(v) : v \in Values} \cup {Err(e) : e \in Codes}

\* an unwrap that hands an error result on as if it were a value
unwrapReturnsAlways(r) ==
    [thrown |-> FALSE, value |-> IF isErr(r) THEN r.error ELSE r.value, error |-> <<>>]

\* unwrap(result): the value of an Ok; an Err stops the body with its error
unwrap(r) ==
    IF isErr(r)
    THEN [thrown |-> TRUE, value |-> <<>>, error |-> r.error]
    ELSE [thrown |-> FALSE, value |-> r.value, error |-> <<>>]

\* what the function made by wrap resolves to when an unwrap stopped its body
wrap(u) == Err(u.error[1])

\* the body of a wrapped function: unwrap(await body[1]) ... unwrap(await body[k]),
\* then return ret
Programs ==
    {[body |-> b, ret |-> r] :
        b \in UNION {[1..k -> Results] : k \in 0..MaxStatements}, r \in Results}

InitWrap ==
    /\ Start
    /\ source = NoSource
    /\ pass = 1
    /\ run \in {[kind |-> "wrap", body |-> p.body, ret |-> p.ret,
                 pc |-> 0, values |-> <<>>, result |-> <<>>] : p \in Programs}

\* the next `const value = unwrap(await ...)` of the body
UnwrapStatement ==
    /\ run.result = <<>>
    /\ run.pc < Len(run.body)
    /\ LET u == unwrap(run.body[run.pc + 1]) IN
        run' = IF u.thrown
               THEN [run EXCEPT !.result = <<wrap(u)>>]
               ELSE [run EXCEPT !.pc = @ + 1, !.values = Append(@, u.value[1])]
    /\ UNCHANGED <<wrappedScope, emitted, frames, nextId, last, source, pass>>

\* the `return` the body ends with
ReturnStatement ==
    /\ run.result = <<>>
    /\ run.pc = Len(run.body)
    /\ run' = [run EXCEPT !.result = <<run.ret>>]
    /\ UNCHANGED <<wrappedScope, emitted, frames, nextId, last, source, pass>>

NextWrap ==
    \/ UnwrapStatement
    \/ ReturnStatement

SpecWrap == InitWrap /\ [][NextWrap]_vars

\* a resultAll that leaves the erroneous inputs out
resultAllSkipsErrors(inputs) ==
    LET oks == SelectSeq(inputs, isOk)
    IN  {Ok([i \in 1..Len(oks) |-> oks[i].value[1]])}

\* resultAll(promises): what it can resolve to once every input has settled
resultAll(inputs) ==
    IF \A i \in 1..Len(inputs) : isOk(inputs[i])
    THEN {Ok([i \in 1..Len(inputs) |-> inputs[i].value[1]])}
    ELSE {Err(inputs[i].error[1]) : i \in {j \in 1..Len(inputs) : isErr(inputs[j])}}

InitAll ==
    /\ Start
    /\ source = NoSource
    /\ pass = 1
    /\ run \in {[kind |-> "all", inputs |-> ins, order |-> <<>>, result |-> <<>>] :
                   ins \in UNION {[1..k -> Results] : k \in 0..MaxInputs}}

\* one of the input promises settles
Settle ==
    /\ run.result = <<>>
    /\ \E i \in 1..Len(run.inputs) :
        /\ \A k \in 1..Len(run.order) : run.order[k] # i
        /\ run' = [run EXCEPT !.order = Append(@, i)]
    /\ UNCHANGED <<wrappedScope, emitted, frames, nextId, last, source, pass>>

\* the promise returned by resultAll resolves
Resolve ==
    /\ run.result = <<>>
    /\ Len(run.order) = Len(run.inputs)
    /\ \E r \in resultAll(run.inputs) : run' = [run EXCEPT !.result = <<r>>]
    /\ UNCHANGED <<wrappedScope, emitted, frames, nextId, last, source, pass>>

NextAll ==
    \/ Settle
    \/ Resolve

SpecAll == InitAll /\ [][NextAll]_vars

----------------------------------------------------------------------------
(* Vocabulary of the properties *)

\* the last event was the exit of the function of the top scope: that scope was
\* reconciled (Scope, with wrappedFns as reconciliation filled it) and popped,
\* and the host closed the region Region
Reconciled == last.kind = "exit" /\ last.scope # <<>>
Scope == last.scope[1]
Region == last.frame[1]

Among(out, ids) == {i \in 1..Len(out) : out[i].messageId \in ids}
Count(out, id) == Cardinality(Among(out, {id}))
CountAt(out, id, node) ==
    Cardinality({i \in Among(out, {id}) : out[i].node = node})

\* the members of the single declared type parameter
HasOneParameter(tp) == tp.present /\ Len(tp.params) = 1
Members(tp) ==
    IF tp.params[1].type = "TSUnionType" THEN tp.params[1].types ELSE <<tp.params[1]>>
IsTypeofIdentifier(m) == m.type = "TSTypeQuery" /\ m.exprName.type = "Identifier"
Occurrences(ms, n) == {i \in 1..Len(ms) : IsTypeofIdentifier(ms[i]) /\ ms[i].exprName.name = n}

ReconciliationIds ==
    {"missingTypeParamInWrap", "badWrapTypeArg", "duplicatedWrapArg",
     "unwrapNotInWrap", "wrappedFnNotUnwrapped"}

----------------------------------------------------------------------------
(* Properties *)

\* C1: once the fix of a badWrap report has been applied to a wrap construct,
\* linting the fixed construct again reports nothing at all.
C1_FixedConstructIsClean == pass = 2 => emitted = <<>>

\* C2: a scope whose type-parameter list has exactly one parameter, made only of
\* `typeof identifier` members without duplicates, and whose declared names are
\* exactly the names of unwrappedFns (in any order) is reconciled without a report.
C2_CleanCase ==
    (/\ Reconciled
     /\ HasOneParameter(Scope.typeParameters)
     /\ LET ms == Members(Scope.typeParameters) IN
         /\ \A i \in 1..Len(ms) : IsTypeofIdentifier(ms[i])
         /\ \A i, j \in 1..Len(ms) : ms[i].exprName.name = ms[j].exprName.name => i = j
         /\ {ms[i].exprName.name : i \in 1..Len(ms)} = KeySet(Scope.unwrappedFns))
    => emitted = <<>>

\* C2 happens: a clean scope of two names or more, declared in another order
\* than they were unwrapped, has been reconciled.
C2_Witness ==
    /\ Reconciled
    /\ HasOneParameter(Scope.typeParameters)
    /\ LET ms == Members(Scope.typeParameters) IN
        /\ Len(ms) >= 2
        /\ \A i \in 1..Len(ms) : IsTypeofIdentifier(ms[i])
        /\ \A i, j \in 1..Len(ms) : ms[i].exprName.name = ms[j].exprName.name => i = j
        /\ {ms[i].exprName.name : i \in 1..Len(ms)} = KeySet(Scope.unwrappedFns)
        /\ ms[1].exprName.name # Scope.unwrappedFns[1].key
    /\ emitted = <<>>

\* C3: reconciliation reports unwrapNotInWrap exactly once for each name of
\* unwrappedFns that wrappedFns lacks, wrappedFnNotUnwrapped exactly once for each
\* name of wrappedFns that unwrappedFns lacks, each at the node recorded for the
\* name, and neither for a name that both have.
C3_CrossCheck ==
    Reconciled =>
        LET u == Scope.unwrappedFns
            w == Scope.wrappedFns
        IN  /\ \A n \in KeySet(u) :
                  CountAt(emitted, "unwrapNotInWrap", MapGet(u, n))
                      = IF n \in KeySet(w) THEN 0 ELSE 1
            /\ \A n \in KeySet(w) :
                  CountAt(emitted, "wrappedFnNotUnwrapped", MapGet(w, n))
                      = IF n \in KeySet(u) THEN 0 ELSE 1
            /\ Count(emitted, "unwrapNotInWrap") = Cardinality(KeySet(u) \ KeySet(w))
            /\ Count(emitted, "wrappedFnNotUnwrapped") = Cardinality(KeySet(w) \ KeySet(u))

\* C3 happens: declared {f, g}, unwrapped {f, h}.
C3_Witness ==
    /\ Reconciled
    /\ KeySet(Scope.wrappedFns) = {"f", "g"}
    /\ KeySet(Scope.unwrappedFns) = {"f", "h"}
    /\ Count(emitted, "unwrapNotInWrap") = 1
    /\ Count(emitted, "wrappedFnNotUnwrapped") = 1

\* C4: an unwrap call changes the unwrappedFns of the top scope only, never a
\* scope below it, and what a scope is reconciled with (its unwrappedFns, the
\* names in the text of its fix) are names unwrapped directly in its own body,
\* never names unwrapped only in the body of a wrap construct nested in it.
C4_NestedIsolation ==
    /\ last.kind = "call" =>
           IF Len(wrappedScope) = Len(last.before) + 1
           THEN Tail(wrappedScope) = last.before
           ELSE /\ Len(wrappedScope) = Len(last.before)
                /\ wrappedScope # <<>> => Tail(wrappedScope) = Tail(last.before)
    /\ Reconciled =>
           LET own == {Region.seen[k] : k \in 1..Len(Region.seen)} IN
           /\ KeySet(Scope.unwrappedFns) \subseteq own
           /\ \A i \in Among(emitted, {"badWrap"}) :
                  LET text == emitted[i].fix.text IN
                  {text[k] : k \in 1..Len(text)} \cap Names \subseteq own

\* C4 happens: an unwrap call in the body of a wrap construct nested in the body
\* of another has been recorded, under a name the outer scope has not.
C4_Witness ==
    /\ last.kind = "call" /\ last.class = "unwrap"
    /\ Len(wrappedScope) = 2
    /\ wrappedScope[1].inFn /\ wrappedScope[2].inFn
    /\ wrappedScope[1].unwrappedFns # last.before[1].unwrappedFns
    /\ wrappedScope[2].unwrappedFns # <<>>
    /\ KeySet(wrappedScope[1].unwrappedFns) \cap KeySet(wrappedScope[2].unwrappedFns) = {}

\* C5: a scope without an explicit type-parameter list is reconciled with exactly
\* one missingTypeParamInWrap and exactly one badWrap, both at the wrap callee,
\* with wrappedFns left empty and a fix that inserts after the callee.
C5_NoTypeParameterList ==
    (Reconciled /\ ~Scope.typeParameters.present) =>
        /\ Count(emitted, "missingTypeParamInWrap") = 1
        /\ CountAt(emitted, "missingTypeParamInWrap", Scope.callee) = 1
        /\ Count(emitted, "badWrap") = 1
        /\ CountAt(emitted, "badWrap", Scope.callee) = 1
        /\ Scope.wrappedFns = <<>>
        /\ \A i \in Among(emitted, {"badWrap"}) :
               /\ emitted[i].fix.kind = "insertTextAfter"
               /\ emitted[i].fix.target = Scope.callee

\* C5 happens: a scope without a list, with unwrapped names, has been reconciled.
C5_Witness ==
    /\ Reconciled
    /\ ~Scope.typeParameters.present
    /\ Len(Scope.unwrappedFns) >= 2
    /\ Count(emitted, "badWrap") = 1

\* C6: reconciliation reports badWrap exactly once when it reports one of
\* missingTypeParamInWrap, badWrapTypeArg, duplicatedWrapArg, unwrapNotInWrap and
\* wrappedFnNotUnwrapped, and not at all otherwise; no other event reports badWrap
\* (a badUnwrapArg comes without one).
C6_Umbrella ==
    /\ Reconciled =>
           Count(emitted, "badWrap") = IF Among(emitted, ReconciliationIds) # {} THEN 1 ELSE 0
    /\ ~Reconciled => Count(emitted, "badWrap") = 0

\* C6 happens: a reconciliation has reported only duplicatedWrapArg and badWrap.
C6_Witness ==
    /\ Reconciled
    /\ Count(emitted, "duplicatedWrapArg") >= 1
    /\ Count(emitted, "badWrap") = 1
    /\ Len(emitted) = Count(emitted, "duplicatedWrapArg") + 1

\* C7: a name declared k >= 2 times by well-formed members of the declared list
\* gets exactly k-1 duplicatedWrapArg, one at each occurrence after the first,
\* wrappedFns keeps the node of the first occurrence, and when the name is in
\* unwrappedFns no wrappedFnNotUnwrapped is reported for it.
C7_Duplicates ==
    (Reconciled /\ HasOneParameter(Scope.typeParameters)) =>
        LET ms == Members(Scope.typeParameters) IN
        \A n \in Names :
            LET occ == Occurrences(ms, n)
                first == CHOOSE i \in occ : \A j \in occ : i <= j
                nodes == {Anchor("type", ms[j].id) : j \in occ}
            IN  Cardinality(occ) >= 2 =>
                /\ Cardinality({i \in Among(emitted, {"duplicatedWrapArg"}) :
                                   emitted[i].node \in nodes}) = Cardinality(occ) - 1
                /\ \A j \in occ :
                       CountAt(emitted, "duplicatedWrapArg", Anchor("type", ms[j].id))
                           = IF j = first THEN 0 ELSE 1
                /\ MapGet(Scope.wrappedFns, n) = Anchor("type", ms[first].id)
                /\ n \in KeySet(Scope.unwrappedFns) =>
                       \A i \in Among(emitted, {"wrappedFnNotUnwrapped"}) :
                           emitted[i].node \notin nodes

\* C7 happens: a name declared three times and unwrapped has been reconciled.
C7_Witness ==
    /\ Reconciled
    /\ HasOneParameter(Scope.typeParameters)
    /\ \E n \in KeySet(Scope.unwrappedFns) :
           Cardinality(Occurrences(Members(Scope.typeParameters), n)) = 3
    /\ Count(emitted, "duplicatedWrapArg") = 2

\* C8: an unwrap call with one argument that, after peeling one await, is not a
\* call of a bare identifier, visited while the top scope has inFn true, reports
\* exactly one badUnwrapArg at the call, leaves the stack (every unwrappedFns) as
\* it was, and so leaves the reports of the reconciliation to come as they were.
C8_MalformedUnwrap ==
    (/\ last.kind = "call" /\ last.class = "malformedUnwrap"
     /\ last.before # <<>> /\ Head(last.before).inFn)
    => /\ emitted = <<Report("badUnwrapArg", Anchor("call", last.id))>>
       /\ wrappedScope = last.before
       /\ exitFunction(wrappedScope, Head(wrappedScope).fn).out
              = exitFunction(last.before, Head(last.before).fn).out

\* C8 happens: a malformed unwrap call was visited in a body that has already
\* recorded a name.
C8_Witness ==
    /\ last.kind = "call" /\ last.class = "malformedUnwrap"
    /\ last.before # <<>> /\ Head(last.before).inFn
    /\ Head(last.before).unwrappedFns # <<>>
    /\ Count(emitted, "badUnwrapArg") = 1

\* C9: an unwrap call (well-formed or not) visited while the stack is empty or
\* the top scope has inFn false reports nothing and leaves the stack as it was.
C9_OutsideBody ==
    (/\ last.kind = "call"
     /\ last.class \in {"unwrap", "malformedUnwrap", "unwrapArity"}
     /\ (last.before = <<>> \/ ~Head(last.before).inFn))
    => /\ emitted = <<>>
       /\ wrappedScope = last.before

\* C9 happens: a well-formed unwrap call was visited after the wrap call and
\* before the body was entered.
C9_Witness ==
    /\ last.kind = "call" /\ last.class = "unwrap"
    /\ last.before # <<>> /\ ~Head(last.before).inFn

\* '<' typeof n1 '|' typeof n2 ... '>' for the names ns, position by position
UnionText(ns) ==
    [k \in 1..(IF ns = <<>> THEN 2 ELSE 3 * Len(ns) + 1) |->
        IF k = 1 THEN "<"
        ELSE IF k = (IF ns = <<>> THEN 2 ELSE 3 * Len(ns) + 1) THEN ">"
        ELSE IF k % 3 = 2 THEN "typeof"
        ELSE IF k % 3 = 0 THEN ns[k \div 3]
        ELSE "|"]

\* C10: the text of the fix of badWrap is '<' 'typeof name' ... joined by '|' '>'
\* over exactly the names of unwrappedFns, each once, in the order of the first
\* unwrap call of each name, whatever was declared; when a type-parameter list
\* was present the fix replaces that whole list.
C10_FixContent ==
    Reconciled =>
        \A i \in Among(emitted, {"badWrap"}) :
            /\ emitted[i].fix.text = UnionText(Region.seen)
            /\ {Region.seen[k] : k \in 1..Len(Region.seen)} = KeySet(Scope.unwrappedFns)
            /\ Len(Region.seen) = Cardinality(KeySet(Scope.unwrappedFns))
            /\ Scope.typeParameters.present =>
                   /\ emitted[i].fix.kind = "replaceText"
                   /\ emitted[i].fix.target = Scope.typeParametersNode

\* C10 happens: a fix was built after a name recorded first was unwrapped again
\* later than the name recorded second, with a type-parameter list present.
C10_Witness ==
    /\ Reconciled
    /\ Count(emitted, "badWrap") = 1
    /\ Scope.typeParameters.present
    /\ Len(Scope.unwrappedFns) >= 2
    /\ Scope.unwrappedFns[1].value.id > Scope.unwrappedFns[2].value.id

\* the functions of the wrap constructs the traversal is inside of, innermost
\* first: their wrap call was visited and their function argument not yet exited
OpenWraps == SelectSeq(frames, LAMBDA f : f.isWrap)

\* C11: the stack holds exactly one scope per wrap construct whose wrap call was
\* visited and whose function argument was not yet exited, the innermost on top.
C11_StackDepth ==
    /\ Len(wrappedScope) = Len(OpenWraps)
    /\ \A i \in 1..Len(wrappedScope) : wrappedScope[i].fn = OpenWraps[i].fn

C11_Witness ==
    /\ Len(wrappedScope) = 2
    /\ Len(frames) = 3
    /\ ~Head(frames).isWrap
    /\ last.kind = "exit"

\* the i-th unwrap call of the body of the linted construct
BodyCall(src, i) ==
    CallNode(TypeCount(src.typeParameters.params) + 2 + i, Identifier(unwrapName),
             NoTypeParameters, Statement, src.body[i])

\* the call expression that unwrap call hands to callExpr (line 106-109)
CallSite(src, i) ==
    Anchor(IF src.body[i][1].type = "AwaitExpression" THEN "awaited" ELSE "argument",
           BodyCall(src, i).id)

\* the well-formed unwrap calls of the body that unwrap the name n
CallsOf(src, n) ==
    {i \in 1..Len(src.body) :
        IsWellFormedUnwrap(BodyCall(src, i)) /\ UnwrappedName(BodyCall(src, i)) = n}

First(S) == CHOOSE i \in S : \A j \in S : i <= j
Latest(S) == CHOOSE i \in S : \A j \in S : j <= i

Declares(s, n) == \E k \in 1..Len(s.wrappedFns) : s.wrappedFns[k].key = n

\* C12 as stated: unwrappedFns holds, for each name, the call expression of the
\* first unwrap call of that name, and an unwrapNotInWrap of an undeclared name
\* is anchored there.
C12_FirstCallSiteWins ==
    Reconciled =>
        \A k \in 1..Len(Scope.unwrappedFns) :
            LET e == Scope.unwrappedFns[k]
                at == CallSite(source, First(CallsOf(source, e.key)))
            IN  /\ e.value = at
                /\ ~Declares(Scope, e.key) => CountAt(emitted, "unwrapNotInWrap", at) = 1

\* C12 (amended): unwrappedFns has one entry per unwrapped name, in the order of
\* the first unwrap call of each name; the entry holds the call expression of
\* the LAST unwrap call of that name, and the one unwrapNotInWrap of an
\* undeclared name is anchored at that last call expression.
C12_LastCallSiteKept ==
    Reconciled =>
        /\ \A k \in 1..Len(Scope.unwrappedFns) :
            LET e == Scope.unwrappedFns[k]
                at == CallSite(source, Latest(CallsOf(source, e.key)))
            IN  /\ e.value = at
                /\ \A j \in (k + 1)..Len(Scope.unwrappedFns) :
                       /\ Scope.unwrappedFns[j].key # e.key
                       /\ First(CallsOf(source, e.key))
                              < First(CallsOf(source, Scope.unwrappedFns[j].key))
                /\ ~Declares(Scope, e.key) =>
                       /\ CountAt(emitted, "unwrapNotInWrap", at) = 1
                       /\ Count(emitted, "unwrapNotInWrap")
                              = Cardinality({n \in KeySet(Scope.unwrappedFns) : ~Declares(Scope, n)})
        /\ KeySet(Scope.unwrappedFns) = {n \in Names : CallsOf(source, n) # {}}

\* C12 happens: an undeclared name was unwrapped twice in the body and its
\* unwrapNotInWrap was reported at the second call.
C12_Witness ==
    /\ Reconciled
    /\ pass = 1
    /\ \E n \in Names :
        /\ Cardinality(CallsOf(source, n)) = 2
        /\ ~Declares(Scope, n)
        /\ CountAt(emitted, "unwrapNotInWrap", CallSite(source, Latest(CallsOf(source, n)))) = 1

\* the functions of the scopes that are open (pushed and not yet popped)
OpenFns == {wrappedScope[i].fn : i \in 1..Len(wrappedScope)}

\* the scope the reports of the last event originate from: the scope that was
\* reconciled, or else the top scope the visited call was delivered to
Origin == IF Reconciled THEN Scope.fn ELSE Head(last.before).fn

\* C13 as stated: whenever the host stops, a scope that is open has not been
\* reconciled and no diagnostic originating from it has been emitted.
C13_OpenScopeSilent ==
    \A i \in 1..Len(emitted) : Origin \notin OpenFns

\* C13 (amended): whenever the host stops, a scope that is open has not been
\* reconciled and none of its reconciliation diagnostics (type-parameter
\* diagnostics, unwrapNotInWrap, wrappedFnNotUnwrapped, badWrap) has been
\* emitted; the only reports that originate from an open scope are the
\* badUnwrapArg reports of malformed unwrap calls visited in its body.
C13_OpenScopeNotReconciled ==
    /\ Reconciled => Scope.fn \notin OpenFns
    /\ \A i \in 1..Len(emitted) :
        IF emitted[i].messageId = "badUnwrapArg"
        THEN /\ last.kind = "call"
             /\ wrappedScope # <<>>
             /\ Head(wrappedScope).inFn
             /\ Origin = Head(wrappedScope).fn
        ELSE /\ Reconciled
             /\ emitted[i].messageId \in ReconciliationIds \cup {"badWrap"}

\* C13 happens: the traversal stands inside the body of a scope that declares
\* a name it has not unwrapped, and a malformed unwrap call of that body has
\* just been reported.
C13_Witness ==
    /\ wrappedScope # <<>>
    /\ Head(wrappedScope).inFn
    /\ HasOneParameter(Head(wrappedScope).typeParameters)
    /\ Head(wrappedScope).unwrappedFns = <<>>
    /\ Count(emitted, "badUnwrapArg") = 1

\* the unwrap statements of the running body whose result is an error
ErrStatements == {i \in 1..Len(run.body) : isErr(run.body[i])}

\* the statements that run before the first unwrap of an error
RunsUntil == IF ErrStatements = {} THEN Len(run.body) ELSE First(ErrStatements) - 1

\* C14: in a wrapped function an unwrap of an Ok yields the contained value and
\* the body goes on; an unwrap of an Err stops the body there (no later
\* statement runs) and the function resolves to an Err with that same error; a
\* body that reaches its return resolves to the returned Ok or Err unchanged.
C14_ShortCircuit ==
    /\ run.pc <= RunsUntil
    /\ run.values = [i \in 1..run.pc |-> run.body[i].value[1]]
    /\ run.result # <<>> =>
        /\ run.pc = RunsUntil
        /\ run.result[1] = IF ErrStatements = {} THEN run.ret
                           ELSE Err(run.body[First(ErrStatements)].error[1])

\* C14 happens: the second unwrap of a body met an error after the first had
\* yielded its value, and the function resolved although its return would have
\* been an Ok.
C14_Witness ==
    /\ run.result # <<>>
    /\ Len(run.body) = 2
    /\ isOk(run.body[1]) /\ isErr(run.body[2])
    /\ isOk(run.ret)
    /\ run.values = <<run.body[1].value[1]>>
    /\ isErr(run.result[1])

\* C15: resultAll resolves to an Ok holding the inputs' values in the order of
\* the inputs when every input is Ok, and to an Err carrying the error of an
\* erroneous input when at least one input is Err.
C15_ResultAll ==
    run.result # <<>> =>
        LET r == run.result[1] IN
        IF \A i \in 1..Len(run.inputs) : isOk(run.inputs[i])
        THEN /\ isOk(r)
             /\ Len(r.value[1]) = Len(run.inputs)
             /\ \A i \in 1..Len(run.inputs) : r.value[1][i] = run.inputs[i].value[1]
        ELSE /\ isErr(r)
             /\ \E i \in 1..Len(run.inputs) :
                    isErr(run.inputs[i]) /\ r.error = run.inputs[i].error

\* C15 happens: three inputs with different values settled in another order
\* than they were given, all Ok, and resultAll resolved.
C15_Witness ==
    /\ run.result # <<>>
    /\ Len(run.inputs) = 3
    /\ \A i \in 1..3 : isOk(run.inputs[i])
    /\ run.inputs[1] # run.inputs[2]
    /\ run.order = <<3, 1, 2>>

\* C16: each scope is reconciled exactly once, at the exit event of its own
\* function, and popped in that same event; no other event reconciles or pops a
\* scope, and when every function entered has been exited the stack is empty.
C16_ReconciledAtOwnExit ==
    /\ last.kind = "exit" => (Reconciled <=> Region.isWrap)
    /\ Reconciled =>
        /\ Scope.fn = last.id
        /\ Region.fn = last.id
        /\ Head(last.before).fn = last.id
        /\ wrappedScope = Tail(last.before)
        /\ last.id \notin OpenFns
    /\ last.kind # "exit" =>
        /\ last.scope = <<>>
        /\ Len(wrappedScope) >= Len(last.before)
    /\ \A f \in OpenFns : f < nextId
    /\ frames = <<>> => wrappedScope = <<>>

\* C16 happens: the function of a wrap construct that recorded a name was
\* exited last, after three or more nodes had been visited inside it, and the
\* traversal is complete.
C16_Witness ==
    /\ Reconciled
    /\ frames = <<>>
    /\ wrappedScope = <<>>
    /\ Scope.unwrappedFns # <<>>
    /\ nextId - last.id >= 4

\* the last event was a function event for a function that is not the function
\* of the top scope (or no scope was open)
Mismatched ==
    /\ last.kind \in {"enter", "exit"}
    /\ (last.before = <<>> \/ Head(last.before).fn # last.id)

\* C17: a function enter or exit event for a function that is not the function
\* of the top scope (the stack may be empty, the function may be that of a
\* scope below the top) reports nothing, reconciles nothing, and leaves the
\* stack, its inFn flags and both maps of every scope as they were.
C17_MismatchedIsNoOp ==
    Mismatched =>
        /\ emitted = <<>>
        /\ last.scope = <<>>
        /\ wrappedScope = last.before

\* C17 happens: the function of the scope below the top was exited while the
\* top scope, inside its body, had recorded a name it does not declare.
C17_Witness ==
    /\ last.kind = "exit"
    /\ Len(last.before) = 2
    /\ last.before[2].fn = last.id
    /\ last.before[1].inFn
    /\ last.before[1].unwrappedFns # <<>>
    /\ ~last.before[1].typeParameters.present

\* C18: a visited call pushes a scope exactly when its callee is the identifier
\* wrapName and its parent is a call with exactly one argument that is an async
\* function expression or arrow function; the pushed scope has the previous top
\* as upper, inFn false and both maps empty.  Any other call leaves the number
\* and the functions of the scopes as they were, reports nothing unless it is a
\* malformed unwrap call, and no reconciliation ever reports about it: every
\* reconciliation is that of a wrap construct and anchors its reports inside it.
C18_WrapRecognition ==
    /\ (last.kind = "call" /\ last.class = "wrap") =>
        /\ emitted = <<>>
        /\ Len(wrappedScope) = Len(last.before) + 1
        /\ Tail(wrappedScope) = last.before
        /\ ~Head(wrappedScope).inFn
        /\ Head(wrappedScope).unwrappedFns = <<>>
        /\ Head(wrappedScope).wrappedFns = <<>>
        /\ Head(wrappedScope).callee = Anchor("callee", last.id)
        /\ Head(wrappedScope).fn = Head(frames).fn
    /\ (last.kind = "call" /\ last.class # "wrap") =>
        /\ Len(wrappedScope) = Len(last.before)
        /\ \A i \in 1..Len(wrappedScope) : wrappedScope[i].fn = last.before[i].fn
        /\ last.class \in {"other", "unwrapArity"} =>
            /\ wrappedScope = last.before
            /\ emitted = <<>>
    /\ Reconciled =>
        /\ Region.isWrap
        /\ Region.fn = Scope.fn
        /\ \A i \in 1..Len(emitted) :
            \/ emitted[i].node.id = Scope.callee.id
            \/ emitted[i].node.kind = "type"
                   /\ Scope.callee.id < emitted[i].node.id /\ emitted[i].node.id < Scope.fn
            \/ emitted[i].node.kind \in {"argument", "awaited"}
                   /\ emitted[i].node.id > Scope.fn

\* C18 happens: a wrap call was recognized inside the body of another wrap
\* construct while a function that belongs to no wrap construct was open.
C18_Witness ==
    /\ last.kind = "call" /\ last.class = "wrap"
    /\ Len(wrappedScope) = 2
    /\ wrappedScope[2].inFn
    /\ \E i \in 1..Len(frames) : ~frames[i].isWrap

\* C19: every name whose well-formed unwrap call was visited between the enter
\* and the exit of the function of a wrap construct, and outside the function
\* body of any wrap construct nested in it, is in that scope's unwrappedFns when
\* the scope is reconciled, so a declared `typeof n` of such a name gets no
\* wrappedFnNotUnwrapped.
C19_EveryUnwrapRecorded ==
    Reconciled =>
        \A n \in Region.within :
            /\ n \in KeySet(Scope.unwrappedFns)
            /\ \A k \in 1..Len(Scope.wrappedFns) :
                   Scope.wrappedFns[k].key = n =>
                       CountAt(emitted, "wrappedFnNotUnwrapped", Scope.wrappedFns[k].value) = 0

\* the step of reconciliation a diagnostic belongs to
Phase(messageId) ==
    IF messageId \in {"missingTypeParamInWrap", "badWrapTypeArg", "duplicatedWrapArg"} THEN 1
    ELSE IF messageId = "unwrapNotInWrap" THEN 2
    ELSE IF messageId = "wrappedFnNotUnwrapped" THEN 3
    ELSE IF messageId = "badWrap" THEN 4
    ELSE 0

\* the place of the name unwrapped by the call expression `node` among the names
\* of the closed region, in the order of their first unwrap call
FirstRecorded(node) ==
    LET n == Scope.unwrappedFns[CHOOSE k \in 1..Len(Scope.unwrappedFns) :
                                    Scope.unwrappedFns[k].value = node].key
    IN  CHOOSE k \in 1..Len(Region.seen) : Region.seen[k] = n

\* C20: a badUnwrapArg of a scope is reported while the scope is still open,
\* hence before its reconciliation diagnostics; reconciliation reports the
\* type-parameter diagnostics first, in declared order, then the
\* unwrapNotInWrap in the order in which the names were first recorded, then the
\* wrappedFnNotUnwrapped in declared order, and badWrap last; a scope is
\* reconciled while every scope that encloses it is still open, so its
\* diagnostics precede the reconciliation diagnostics of the enclosing scopes.
C20_DiagnosticOrder ==
    /\ \A i \in Among(emitted, {"badUnwrapArg"}) :
        /\ ~Reconciled
        /\ last.kind = "call"
        /\ Origin \in OpenFns
    /\ Reconciled =>
        /\ \A i \in 1..Len(emitted) : Phase(emitted[i].messageId) > 0
        /\ \A i, j \in 1..Len(emitted) :
            i < j =>
                /\ Phase(emitted[i].messageId) <= Phase(emitted[j].messageId)
                /\ (Phase(emitted[i].messageId) = 1 /\ Phase(emitted[j].messageId) = 1)
                       => emitted[i].node.id < emitted[j].node.id
                /\ (Phase(emitted[i].messageId) = 2 /\ Phase(emitted[j].messageId) = 2)
                       => FirstRecorded(emitted[i].node) < FirstRecorded(emitted[j].node)
                /\ (Phase(emitted[i].messageId) = 3 /\ Phase(emitted[j].messageId) = 3)
                       => emitted[i].node.id < emitted[j].node.id
                /\ Phase(emitted[i].messageId) # 4
        /\ Head(last.before).fn = Scope.fn
        /\ \A i \in 2..Len(last.before) : last.before[i].fn \in OpenFns

\* C20 happens: one reconciliation reported a type-parameter diagnostic, two
\* unwrapNotInWrap, a wrappedFnNotUnwrapped and badWrap.
C20_Witness ==
    /\ Reconciled
    /\ Among(emitted, {"badWrapTypeArg", "duplicatedWrapArg"}) # {}
    /\ Count(emitted, "unwrapNotInWrap") = 2
    /\ Count(emitted, "wrappedFnNotUnwrapped") = 1
    /\ Count(emitted, "badWrap") = 1

====
